---- MODULE Spec2Model ----
EXTENDS Integers, Sequences, FiniteSets, TLC

\* A model of two operations of OpenPNM:
\*   Imported.__init__   (openpnm/geometry/_imported.py)
\*   HDF5.export_data    (openpnm/io/_hdf5.py)
\*
\* Strings are sequences of tokens.  The tokens "." "/" "_" are the characters
\* the code inspects (str.split, str.join); every other token is an opaque
\* fragment of a name that contains none of them.

VARIABLES
    \* ---- Imported.__init__ ----
    settings,   \* self.settings
    network,    \* the network's properties: key -> array
    net0,       \* the network's properties before construction (never changed)
    self,       \* the geometry's properties: key -> array
    models,     \* propnames registered through add_model -> model name
    log,        \* logger.error messages
    todo,       \* the list network.props() being iterated
    pc,         \* position in __init__
    err,        \* the exception that left __init__, or "none"
    \* ---- HDF5.export_data ----
    objs,       \* the source containers: name -> (key -> array)
    objs0,      \* the source containers before the call (never changed)
    opts,       \* the export options
    d,          \* the FlatDict: path -> array
    items,      \* the list d.keys() being iterated
    idx,        \* position in that list
    f,          \* the file: whether it is open, and its datasets
    warnings,   \* logger.warning messages
    ret,        \* what the caller holds once the call is over
    xpc,        \* position in export_data
    xerr        \* the exception that left export_data, or "none"

ivars == <<settings, network, net0, self, models, log, todo, pc, err>>
xvars == <<objs, objs0, opts, d, items, idx, f, warnings, ret, xpc, xerr>>
vars == <<settings, network, net0, self, models, log, todo, pc, err,
          objs, objs0, opts, d, items, idx, f, warnings, ret, xpc, xerr>>

\* ------------------------------------------------------------------ bounds

\* The most properties a network holds besides 'pore.coords' and 'throat.conns'.
MaxProps == 3

\* The most leaves the exported containers hold together.
MaxLeaves == 3

\* The longest array exported.
MaxLen == 1

\* ----------------------------------------------------------------- strings

Empty == [k \in {} |-> 0]

\* Python's sep.join(parts) for two parts.
Key(element, name) == <<element, ".">> \o name

\* s.split(sep)[-1]: what follows the last occurrence of sep in s (all of s when
\* sep does not occur).  sep is 'pore.' or 'throat.', which cannot overlap itself.
SplitLast(s, sep) ==
    LET n == Len(sep)
        hits == {i \in 1..(Len(s) - n + 1) : SubSeq(s, i, i + n - 1) = sep}
    IN  IF hits = {} THEN s
        ELSE LET last == CHOOSE i \in hits : \A j \in hits : j <= i
             IN  SubSeq(s, last + n, Len(s))

pore_coords == Key("pore", <<"coords">>)
throat_conns == Key("throat", <<"conns">>)
pore_region_label == Key("pore", <<"region_label">>)
pore_diameter == Key("pore", <<"diameter">>)
throat_diameter == Key("throat", <<"diameter">>)
pore_extended_diameter == Key("pore", <<"extended_diameter">>)
throat_inscribed_diameter == Key("throat", <<"inscribed_diameter">>)
pore_micropore_size == Key("pore", <<"micro", "pore", ".", "size">>)
pore_volume == Key("pore", <<"volume">>)
throat_length == Key("throat", <<"length">>)
throat_volume == Key("throat", <<"volume">>)
throat_diffusive_size_factors == Key("throat", <<"diffusive_size_factors">>)
throat_hydraulic_size_factors == Key("throat", <<"hydraulic_size_factors">>)

\* ---------------------------------------------------- Imported.__init__

\* network.props(): the network's properties, in the order they were added.
NetOrder ==
    << pore_coords, throat_conns, pore_region_label, pore_diameter,
       throat_diameter, pore_extended_diameter, throat_inscribed_diameter,
       pore_micropore_size, pore_volume, throat_length,
       throat_volume, throat_diffusive_size_factors,
       throat_hydraulic_size_factors >>

AllKeys == {NetOrder[i] : i \in 1..Len(NetOrder)}

\* A network always holds its topology.
Topology == {pore_coords, throat_conns}

\* The array a network holds under key k; distinct keys hold distinct arrays.
ArrayOf(k) == CHOOSE i \in 1..Len(NetOrder) : NetOrder[i] = k

InList(S, k) == k \in S

props(obj) == SelectSeq(NetOrder, LAMBDA k : InList(DOMAIN obj, k))

\* dict assignment and dict.pop
SetItem(obj, k, v) == [x \in DOMAIN obj \cup {k} |-> IF x = k THEN v ELSE obj[x]]
Pop(obj, k) == [x \in DOMAIN obj \ {k} |-> obj[x]]

\* The values settings may take.
PoreAliases ==
    { <<"extended_diameter">>, pore_extended_diameter, pore_micropore_size }
ThroatAliases ==
    { <<"inscribed_diameter">>, throat_inscribed_diameter }
PoreShapes == {"cone", "sphere"}
ThroatShapes == {"cylinder", "cuboid"}
ExcludeChoices == { {}, {pore_volume}, {pore_diameter} }

\* The attributes of openpnm.models.geometry.throat_length,
\* .diffusive_size_factors and .hydraulic_size_factors that the shapes above
\* can name, and those of openpnm.models.geometry.throat_volume.
PairRegistry ==
    { <<"cone", "s", "_and_", "cylinder", "s">>,
      <<"sphere", "s", "_and_", "cylinder", "s">>,
      <<"cube", "s", "_and_", "cuboid", "s">>,
      <<"pyramid", "s", "_and_", "cuboid", "s">> }
VolumeRegistry == { <<"cylinder">>, <<"cuboid">> }

\* A getattr with a default never fails.
GetAttrDefault(registry, name) == [found |-> TRUE, model |-> name]

\* getattr(module, name): AttributeError when the module has no such attribute.
GetAttr(registry, name) == [found |-> name \in registry, model |-> name]

\* p_shape + '_and_' + t_shape, with p_shape and t_shape as lines 113-114 set them
PairName(s) == <<s.pore_shape, "s", "_and_", s.throat_shape, "s">>

\* Only the documented exclusions.
ExcludeDocumented(s) == s.exclude_props \cup {pore_coords, throat_conns}

\* exclude, after exclude.extend([...])
Exclude(s) ==
    s.exclude_props \cup {pore_coords, throat_conns, pore_region_label}

\* 'pore.' + settings['pore_diameter'].split('pore.')[-1], and the same for throats
AliasKey(element, alias) ==
    <<element, ".">> \o SplitLast(alias, <<element, ".">>)

ErrorMsg(alias, essential) == <<alias, "not found, can't assign", essential>>

IdleExport ==
    /\ objs = Empty /\ objs0 = Empty /\ opts = Empty /\ d = Empty
    /\ items = <<>> /\ idx = 0 /\ f = Empty /\ warnings = {}
    /\ ret = "none" /\ xpc = "idle" /\ xerr = "none"

InitImport ==
    /\ settings \in [ pore_diameter : PoreAliases,
                      throat_diameter : ThroatAliases,
                      pore_shape : PoreShapes,
                      throat_shape : ThroatShapes,
                      exclude_props : ExcludeChoices ]
    /\ \E S \in SUBSET (AllKeys \ Topology) :
          /\ Cardinality(S) <= MaxProps
          /\ network = [k \in S \cup Topology |-> ArrayOf(k)]
    /\ net0 = network
    /\ self = Empty
    /\ models = Empty
    /\ log = {}
    /\ todo = <<>>
    /\ pc = "start"
    /\ err = "none"
    /\ IdleExport

\* lines 70-81: the geometry is created empty and the loop over
\* network.props() begins
Construct ==
    /\ pc = "start"
    /\ todo' = props(network)
    /\ pc' = "transfer"
    /\ UNCHANGED <<settings, network, net0, self, models, log, err>>
    /\ UNCHANGED xvars

\* lines 81-83: one iteration of the transfer loop
Transfer ==
    /\ pc = "transfer"
    /\ todo # <<>>
    /\ LET item == Head(todo)
       IN  IF item \notin Exclude(settings)
           THEN /\ self' = SetItem(self, item, network[item])
                /\ network' = Pop(network, item)
           ELSE UNCHANGED <<self, network>>
    /\ todo' = Tail(todo)
    /\ pc' = IF Tail(todo) = <<>> THEN "pore_diameter" ELSE "transfer"
    /\ UNCHANGED <<settings, net0, models, log, err>>
    /\ UNCHANGED xvars

\* lines 87-92 and 106-111
Alias(element, essential, alias, next) ==
    /\ IF essential \notin DOMAIN self
       THEN LET dia == AliasKey(element, alias)
            IN  IF dia \in DOMAIN self
                THEN /\ self' = SetItem(self, essential, self[dia])
                     /\ log' = log
                ELSE /\ log' = log \cup {ErrorMsg(dia, essential)}
                     /\ self' = self
       ELSE UNCHANGED <<self, log>>
    /\ pc' = next
    /\ UNCHANGED <<settings, network, net0, models, todo, err>>
    /\ UNCHANGED xvars

AliasPore ==
    /\ pc = "pore_diameter"
    /\ Alias("pore", pore_diameter, settings.pore_diameter, "throat_diameter")

AliasThroat ==
    /\ pc = "throat_diameter"
    /\ Alias("throat", throat_diameter, settings.throat_diameter, "throat_length")

\* m = getattr(module, name); self.add_model(propname=propname, model=m)
AddModel(propname, registry, name, next) ==
    LET m == GetAttr(registry, name)
    IN  /\ IF m.found
           THEN /\ models' = SetItem(models, propname, m.model)
                /\ pc' = next
                /\ err' = err
           ELSE /\ models' = models
                /\ pc' = "raised"
                /\ err' = "AttributeError"
        /\ UNCHANGED <<settings, network, net0, self, log, todo>>
        /\ UNCHANGED xvars

Skip(next) ==
    /\ pc' = next
    /\ UNCHANGED <<settings, network, net0, self, models, log, todo, err>>
    /\ UNCHANGED xvars

\* if propname not in self.keys(): add the model
AddIfAbsent(propname, registry, name, next) ==
    IF propname \notin DOMAIN self
    THEN AddModel(propname, registry, name, next)
    ELSE Skip(next)

\* lines 115-120
ThroatLength ==
    /\ pc = "throat_length"
    /\ AddIfAbsent(throat_length, PairRegistry, PairName(settings), "throat_volume")

\* lines 122-128
ThroatVolume ==
    /\ pc = "throat_volume"
    /\ AddIfAbsent(throat_volume, VolumeRegistry, <<settings.throat_shape>>,
                   "diffusive_size_factors")

\* lines 129-130
DiffusiveSizeFactors ==
    /\ pc = "diffusive_size_factors"
    /\ AddModel(throat_diffusive_size_factors, PairRegistry, PairName(settings),
                "hydraulic_size_factors")

\* lines 131-132
HydraulicSizeFactors ==
    /\ pc = "hydraulic_size_factors"
    /\ AddModel(throat_hydraulic_size_factors, PairRegistry, PairName(settings),
                "done")

NextImport ==
    \/ Construct
    \/ Transfer
    \/ AliasPore
    \/ AliasThroat
    \/ ThroatLength
    \/ ThroatVolume
    \/ DiffusiveSizeFactors
    \/ HydraulicSizeFactors

SpecImport == InitImport /\ [][NextImport]_vars

\* ------------------------------------------- properties of Imported.__init__

Essential == {pore_diameter, throat_diameter}

Derived ==
    { throat_length, throat_volume, throat_diffusive_size_factors,
      throat_hydraulic_size_factors }

\* What the transfer must have done with key k of the network, given the keys
\* that are never transferred.
TransferOutcome(k, excluded) ==
    IF k \notin excluded
    THEN /\ k \in DOMAIN self
         /\ self[k] = net0[k]
         /\ k \notin DOMAIN network
    ELSE /\ k \in DOMAIN network
         /\ k \notin DOMAIN self

NoSharedKey ==
    \A k \in DOMAIN self :
        (k \in DOMAIN net0 /\ self[k] = net0[k]) => k \notin DOMAIN network

Prefixed(element, alias) ==
    IF Len(alias) >= 2 /\ SubSeq(alias, 1, 2) = <<element, ".">>
    THEN alias
    ELSE <<element, ".">> \o alias

\* What the alias step must do for one essential property.
AliasClaim(element, essential, alias) ==
    LET key == Prefixed(element, alias)
    IN  IF essential \in DOMAIN self
        THEN self' = self
        ELSE IF key \in DOMAIN self
        THEN self' = SetItem(self, essential, self[key])
        ELSE /\ self' = self
             /\ \E m \in log' \ log : m[3] = essential
             /\ pc' # "raised"

\* C4: an essential property absent after the transfer becomes a copy of the
\* configured alias when the alias (given with or without its prefix) is on
\* the geometry, the alias staying; when the alias is absent too the property
\* stays unset, a diagnostic is logged and nothing is raised; an essential
\* property that is present is not overwritten.
C4_AsStated ==
    [][ /\ pc = "pore_diameter" =>
              AliasClaim("pore", pore_diameter, settings.pore_diameter)
        /\ pc = "throat_diameter" =>
              AliasClaim("throat", throat_diameter, settings.throat_diameter)
      ]_vars

PairKnown == PairName(settings) \in PairRegistry

\* C5: when the registry has no entry for the configured shape pair,
\* construction never completes and never gets past the size-factor lookup,
\* whatever the network held: it ends, and only ends, with the lookup failure
\* raised to the caller.
C5_LookupFailure ==
    ~PairKnown =>
        /\ pc \notin {"hydraulic_size_factors", "done"}
        /\ throat_diffusive_size_factors \notin DOMAIN models
        /\ throat_hydraulic_size_factors \notin DOMAIN models
        /\ pc = "raised" => err = "AttributeError"
        /\ ~ENABLED NextImport => pc = "raised"

\* The lookup failure reaches the caller although 'throat.length' and
\* 'throat.volume' arrived from the network.
C5_Witness ==
    /\ ~PairKnown
    /\ pc = "raised"
    /\ err = "AttributeError"
    /\ throat_length \in DOMAIN self
    /\ throat_volume \in DOMAIN self
    /\ models = Empty

\* C6: a model is registered for a derived property only when the geometry
\* does not hold the property after the transfer.
C6_AsStated ==
    \A p \in Derived : p \in DOMAIN models => p \notin DOMAIN self

IdleImport ==
    /\ settings = Empty /\ network = Empty /\ net0 = Empty /\ self = Empty
    /\ models = Empty /\ log = {} /\ todo = <<>> /\ pc = "idle"
    /\ err = "none"

\* ------------------------------------------------------ HDF5.export_data

pore_surface_area == Key("pore", <<"surface", "_", "area">>)
pore_surface__area == Key("pore", <<"surface", ".", "area">>)
throat_conductance == Key("throat", <<"conductance">>)

\* The properties the exported containers may hold, in the order the flattened
\* dictionary lists them.
LeafOrder ==
    << <<"net", pore_diameter>>, <<"net", pore_surface_area>>,
       <<"net", pore_surface__area>>, <<"phase", throat_conductance>> >>

AllLeaves == {LeafOrder[i] : i \in 1..Len(LeafOrder)}

ObjNames == {"net", "phase"}

ObjKind(name) == IF name = "net" THEN "network" ELSE "phase"

\* The element types of numpy arrays told apart by lines 82 and 85.
Dtypes == {"float64", "O", "U"}

Array(dtype, size) ==
    [dtype |-> dtype, shape |-> size, data |-> [i \in 1..size |-> i]]

Arrays == {Array(t, n) : t \in Dtypes, n \in 0..MaxLen}

\* Dict.to_dict followed by FlatDict(dct, delimiter='/'): the path of one
\* property of one container.
FlatPath(name, key, o) ==
    (IF o.objects THEN <<ObjKind(name), "/">> ELSE <<>>)
    \o <<name, "/">>
    \o (IF o.elements
        THEN <<key[1], "/">> \o SubSeq(key, 3, Len(key))
        ELSE key)

HasLeaf(o, leaf) == leaf[2] \in DOMAIN o[leaf[1]]

LeavesOf(o) == {leaf \in AllLeaves : HasLeaf(o, leaf)}

ToDict(o, options) ==
    [p \in {FlatPath(l[1], l[2], options) : l \in LeavesOf(o)} |->
        LET l == CHOOSE l \in LeavesOf(o) : FlatPath(l[1], l[2], options) = p
        IN  o[l[1]][l[2]]]

\* d.keys()
Keys(o, options) ==
    LET present == SelectSeq(LeafOrder, LAMBDA l : HasLeaf(o, l))
    IN  [i \in 1..Len(present) |->
            FlatPath(present[i][1], present[i][2], options)]

\* '_'.join(item.split('.'))
Sanitize(item) == [i \in 1..Len(item) |-> IF item[i] = "." THEN "_" ELSE item[i]]

\* name='/'+tempname
DatasetName(item) == <<"/">> \o Sanitize(item)

InitExport ==
    /\ \E L \in SUBSET AllLeaves :
          /\ Cardinality(L) <= MaxLeaves
          /\ \E a \in [L -> Arrays] :
                objs = [n \in ObjNames |->
                           [k \in {l[2] : l \in {x \in L : x[1] = n}} |->
                               a[<<n, k>>]]]
    /\ objs0 = objs
    /\ opts \in [objects : BOOLEAN, elements : BOOLEAN]
    /\ d = Empty
    /\ items = <<>>
    /\ idx = 0
    /\ f = [open |-> FALSE, datasets |-> Empty]
    /\ warnings = {}
    /\ ret = "none"
    /\ xpc = "start"
    /\ xerr = "none"
    /\ IdleImport

\* lines 73-79: the dictionary is built and flattened, the file is opened and
\* the loop over d.keys() begins
Open ==
    /\ xpc = "start"
    /\ d' = ToDict(objs, opts)
    /\ items' = Keys(objs, opts)
    /\ idx' = 1
    /\ f' = [open |-> TRUE, datasets |-> Empty]
    /\ xpc' = "loop"
    /\ UNCHANGED <<objs, objs0, opts, warnings, ret, xerr>>
    /\ UNCHANGED ivars

\* line 78: the file cannot be created
OpenFails ==
    /\ xpc = "start"
    /\ xpc' = "raised"
    /\ xerr' = "OSError"
    /\ UNCHANGED <<objs, objs0, opts, d, items, idx, f, warnings, ret>>
    /\ UNCHANGED ivars

InLoop == xpc = "loop" /\ idx <= Len(items)

\* An exception leaves export_data: the local f is lost and nothing is returned.
Raise(e) ==
    /\ xpc' = "raised"
    /\ xerr' = e
    /\ UNCHANGED <<objs, objs0, opts, d, items, idx, f, warnings, ret>>
    /\ UNCHANGED ivars

\* The entry is deleted from the source container as well.
DelItemShared(item) ==
    /\ d' = Pop(d, item)
    /\ objs' = [n \in ObjNames |->
                  [k \in {k \in DOMAIN objs[n] : FlatPath(n, k, opts) # item} |->
                      objs[n][k]]]

\* line 84: del d[item]
DelItem(item) ==
    /\ d' = Pop(d, item)
    /\ objs' = objs

\* lines 82-84
SkipObject ==
    /\ InLoop
    /\ d[items[idx]].dtype = "O"
    /\ warnings' = warnings \cup {items[idx]}
    /\ DelItem(items[idx])
    /\ idx' = idx + 1
    /\ UNCHANGED <<objs0, opts, items, f, ret, xpc, xerr>>
    /\ UNCHANGED ivars

\* line 85: arr[0] of an array with no entry
EmptyArray ==
    /\ InLoop
    /\ d[items[idx]].dtype # "O"
    /\ d[items[idx]].shape = 0
    /\ Raise("IndexError")

\* lines 85-86
SkipText ==
    /\ InLoop
    /\ d[items[idx]].dtype = "U"
    /\ d[items[idx]].shape > 0
    /\ idx' = idx + 1
    /\ UNCHANGED <<objs, objs0, opts, d, items, f, warnings, ret, xpc, xerr>>
    /\ UNCHANGED ivars

Writable(arr) == arr.dtype \notin {"O", "U"} /\ arr.shape > 0

\* lines 87-89
CreateDataset ==
    /\ InLoop
    /\ Writable(d[items[idx]])
    /\ DatasetName(items[idx]) \notin DOMAIN f.datasets
    /\ f' = [f EXCEPT !.datasets =
                SetItem(@, DatasetName(items[idx]), d[items[idx]])]
    /\ idx' = idx + 1
    /\ UNCHANGED <<objs, objs0, opts, d, items, warnings, ret, xpc, xerr>>
    /\ UNCHANGED ivars

\* The failure is caught, what was written is removed and the loop goes on.
CreateDatasetFailsHandled ==
    /\ InLoop
    /\ Writable(d[items[idx]])
    /\ f' = [f EXCEPT !.datasets = Empty]
    /\ idx' = idx + 1
    /\ UNCHANGED <<objs, objs0, opts, d, items, warnings, ret, xpc, xerr>>
    /\ UNCHANGED ivars

\* lines 88-89: create_dataset raises, because the file cannot be written or
\* because it already holds a dataset of that name
CreateDatasetFails ==
    /\ InLoop
    /\ Writable(d[items[idx]])
    /\ IF DatasetName(items[idx]) \in DOMAIN f.datasets
       THEN Raise("ValueError")
       ELSE Raise("OSError")

\* line 90
Return ==
    /\ xpc = "loop"
    /\ idx > Len(items)
    /\ ret' = "f"
    /\ xpc' = "returned"
    /\ UNCHANGED <<objs, objs0, opts, d, items, idx, f, warnings, xerr>>
    /\ UNCHANGED ivars

NextExport ==
    \/ Open
    \/ OpenFails
    \/ SkipObject
    \/ EmptyArray
    \/ SkipText
    \/ CreateDataset
    \/ CreateDatasetFails
    \/ Return

SpecExport == InitExport /\ [][NextExport]_vars

\* --------------------------------------------- properties of HDF5.export_data

\* The flattened dictionary as it was built, before the loop deleted from it.
d0 == ToDict(objs0, opts)

\* The entries the loop has dealt with and gone past.
Processed(j) ==
    /\ j \in 1..Len(items)
    /\ xpc = "returned" \/ j < idx

Unsupported(arr) == arr.dtype \in {"O", "U"}

\* C1: the step of the loop on an entry whose array is neither object-typed
\* nor text, whatever its length, creates one dataset, not there before, at
\* the sanitized path, equal to the source array; only a failure of the write
\* itself excuses it.
C1_AsStated ==
    [][ (InLoop /\ ~Unsupported(d[items[idx]])) =>
           \/ xerr' = "OSError"
           \/ /\ DatasetName(items[idx]) \notin DOMAIN f.datasets
              /\ f'.datasets =
                    SetItem(f.datasets, DatasetName(items[idx]), d[items[idx]])
              /\ xpc' = "loop"
      ]_vars

\* C2: every entry that was skipped for its element type, the loop having gone
\* on past it, is absent from the file and named in the log.
C2_AsStated ==
    /\ \A j \in 1..Len(items) :
          (Processed(j) /\ Unsupported(d0[items[j]])) =>
              /\ DatasetName(items[j]) \notin DOMAIN f.datasets
              /\ items[j] \in warnings

\* The node a path hangs from: the path up to its last '/'.
Parent(path) ==
    LET cuts == {i \in 1..Len(path) : path[i] = "/"}
    IN  IF cuts = {} THEN <<>>
        ELSE SubSeq(path, 1, CHOOSE i \in cuts : \A j \in cuts : j <= i)

\* C7: no two entries of the flattened dictionary under the same parent have
\* the same sanitized path.
C7_AsStated ==
    \A a \in DOMAIN d : \A b \in DOMAIN d :
        (a # b /\ Parent(a) = Parent(b)) => Sanitize(a) # Sanitize(b)

\* The datasets that writing the first n - 1 entries creates.
WrittenBefore(n) ==
    LET js == {j \in 1..(n - 1) : Writable(d0[items[j]])}
    IN  [p \in {DatasetName(items[j]) : j \in js} |->
            d0[items[CHOOSE j \in js : DatasetName(items[j]) = p]]]

\* C8: the file always holds exactly the datasets of the entries gone past, so
\* none is passed over and none is removed; once a write has failed the
\* failure is with the caller, nothing is returned, and no further step (a
\* retry, another entry, a cleanup) is taken.
C8_NoRollback ==
    /\ f.open =>
          f.datasets = WrittenBefore(IF xpc = "returned"
                                     THEN Len(items) + 1 ELSE idx)
    /\ (xpc = "raised" /\ f.open) =>
          /\ xerr # "none"
          /\ ret = "none"
          /\ ~ENABLED NextExport

\* A write failed after one dataset was created and with an entry still to come.
C8_Witness ==
    /\ xpc = "raised"
    /\ xerr = "OSError"
    /\ f.datasets # Empty
    /\ idx < Len(items)

\* C9: once the file is open, the caller holds its handle however the call ends.
C9_AsStated ==
    (f.open /\ xpc \in {"returned", "raised"}) => ret = "f"

\* C10: the containers hold after every step what they held before the call.
C10_ReadOnly == objs = objs0

\* An export that dropped an object-typed entry from the flat dictionary and
\* wrote a dataset has returned.
C10_Witness ==
    /\ xpc = "returned"
    /\ warnings # {}
    /\ DOMAIN d # DOMAIN d0
    /\ f.datasets # Empty

====
